---------------------------- MODULE Spec2Model ----------------------------
(***************************************************************************)
(* Model of src/daemon/collectd.c (build without HAVE_KEEPALIVE_GLIB, with *)
(* COLLECT_DAEMON and KERNEL_LINUX): main's start-up sequence, the         *)
(* readiness handshakes, the PID file, the signal handlers, the detached   *)
(* flush threads and the interval loop do_loop.                            *)
(***************************************************************************)
EXTENDS Integers, Sequences, FiniteSets

(***************************************************************************)
(* Bounds of the model.                                                    *)
(***************************************************************************)
\* Runs of the scheduler (LoopSpec): the configured interval is drawn from
\* 1..MaxInterval, iterations start at clock (cdtime) values 0..MaxTime, and at
\* most MaxTermSignals deliveries of SIGINT / SIGTERM and MaxUsr1Signals
\* deliveries of SIGUSR1 are explored.
MaxInterval == 2
MaxTime == 3
MaxTermSignals == 2
MaxUsr1Signals == 2
\* Runs of the whole of main over every option and environment (Spec).
LifeMaxInterval == 1
LifeMaxTime == 0
LifeMaxTermSignals == 1
LifeMaxUsr1Signals == 1
\* Runs with bursts of terminate signals (BurstSpec): at most MaxBursts bursts.
MaxBursts == 2

(***************************************************************************)
(* Program constants.                                                      *)
(***************************************************************************)
\* Largest value of the C int `loop`.
INT_MAX == 2147483647
INT_MIN == -INT_MAX - 1

\* Strings are sequences of characters.
STR_COLLECTD == <<"c", "o", "l", "l", "e", "c", "t", "d">>
READY_PAYLOAD == <<"R", "E", "A", "D", "Y", "=", "1", "\n">>

\* A pointer returned by getenv: NULL, or a string.
NULL == [set |-> FALSE, val |-> <<>>]
Str(s) == [set |-> TRUE, val |-> s]

\* The values of UPSTART_JOB and NOTIFY_SOCKET the process may be started with.
UpstartValues == {NULL, Str(STR_COLLECTD), Str(<<"n", "t", "p", "d">>)}
NotifyValues ==
  {NULL, Str(<<>>), Str(<<"/">>), Str(<<"r", "n">>), Str(<<"/", "n">>),
   Str(<<"@", "n">>)}

EnvNames == {"UPSTART_JOB", "NOTIFY_SOCKET"}

\* The original process and the child it forks.
Procs == {"main", "child"}
NoStatus == -1

VARIABLES
  pc,            \* [Procs -> label]: where each process is in main ("none": not yet forked)
  status,        \* [Procs -> exit status], NoStatus while running
  test_config,   \* main: -t given
  test_readall,  \* main: -T given
  daemonize,     \* main: 1 unless -f or -T given
  exit_status,   \* main: the status main finally returns
  limits,        \* the bounds of the run: [interval, time, term, usr1]
  environ,       \* [name -> NULL or string]
  ret_upstart,   \* what notify_upstart returned, NoStatus before it has
  ret_systemd,   \* what notify_systemd returned, NoStatus before it has
  notifysocket,  \* notify_systemd: the pointer getenv returned
  sock_fd,       \* notify_systemd: fd, -1 when no socket is open
  sent,          \* datagrams sent with sendto, in order
  n_sigstop,     \* number of raise(SIGSTOP) calls
  detected,      \* supervisors detected (the NOTICE lines of notify_*)
  sigchld_ign,   \* SIGCHLD is ignored
  sigpipe_ign,   \* SIGPIPE is ignored
  fds,           \* open descriptors among 0..3
  fds_touched,   \* a descriptor 0, 1, 2 was closed or opened by main
  setsid_done,   \* setsid was called
  pidfile,       \* "absent", or the process whose pid the file holds
  n_create,      \* [Procs -> number of pidfile_create calls that succeeded]
  n_remove,      \* [Procs -> number of pidfile_remove calls]
  handlers,      \* the signals among INT, TERM, USR1 that have a handler
  n_init,        \* number of do_init calls
  n_shutdown,    \* number of do_shutdown calls
  read_started,  \* plugin_read_all or plugin_read_all_once was called
  read_failed,   \* a read call reported failure
  loop,          \* static int loop
  hstack,        \* signal handlers running on the main thread, innermost last
  eintr,         \* a handler ran while the main thread was inside nanosleep
  n_term,        \* number of SIGINT / SIGTERM deliveries
  n_burst,       \* number of bursts of SIGINT / SIGTERM deliveries
  n_usr1,        \* number of SIGUSR1 deliveries
  flush_new,     \* flush threads created that have not yet called plugin_flush
  flush_run,     \* flush threads inside plugin_flush
  n_spawn,       \* number of flush threads pthread_create has started
  clock,         \* what cdtime() returns
  interval,      \* do_loop: interval
  wait_until,    \* do_loop: wait_until
  ts_wait,       \* do_loop: ts_wait
  sleep_until,   \* the clock value at which the running nanosleep expires, else 0
  do_loop_ret,   \* <<what do_loop returned>>, <<>> before it has
  anchor,        \* the value wait_until was last set to from the clock
  ontime         \* number of on-time ticks since then

procVars == <<pc, status>>
optVars == <<limits, test_config, test_readall, daemonize>>
notifyVars == <<environ, ret_upstart, ret_systemd, notifysocket, sock_fd, sent, n_sigstop, detected>>
daemonVars == <<sigchld_ign, fds, fds_touched, setsid_done, pidfile, n_create, n_remove>>
sigVars == <<sigpipe_ign, handlers, loop, hstack, eintr, n_term, n_burst, n_usr1>>
flushVars == <<flush_new, flush_run, n_spawn>>
pluginVars == <<n_init, n_shutdown, read_started, read_failed>>
timeVars ==
  <<clock, interval, wait_until, ts_wait, sleep_until, do_loop_ret, anchor, ontime>>

vars ==
  <<pc, status, limits, test_config, test_readall, daemonize, exit_status, environ,
    ret_upstart, ret_systemd, notifysocket, sock_fd, sent, n_sigstop, detected, sigchld_ign, sigpipe_ign,
    fds, fds_touched, setsid_done, pidfile, n_create, n_remove, handlers,
    n_init, n_shutdown, read_started, read_failed, loop, hstack, eintr, n_term, n_burst,
    n_usr1, flush_new, flush_run, n_spawn, clock, interval, wait_until,
    ts_wait, sleep_until, do_loop_ret, anchor, ontime>>

(***************************************************************************)
(* The state when main is entered and the options have been read           *)
(* (lines 614-678): -T and -f clear daemonize.                             *)
(***************************************************************************)
Start ==
  /\ pc = [p \in Procs |-> IF p = "main" THEN "cf_read" ELSE "none"]
  /\ status = [p \in Procs |-> NoStatus]
  /\ test_config \in BOOLEAN
  /\ test_readall \in BOOLEAN
  /\ daemonize \in BOOLEAN
  /\ test_readall => ~daemonize
  /\ exit_status = 0
  /\ environ \in
       {e \in [EnvNames -> UpstartValues \cup NotifyValues] :
          /\ e["UPSTART_JOB"] \in UpstartValues
          /\ e["NOTIFY_SOCKET"] \in NotifyValues}
  /\ ret_upstart = NoStatus
  /\ ret_systemd = NoStatus
  /\ notifysocket = NULL
  /\ sock_fd = -1
  /\ sent = <<>>
  /\ n_sigstop = 0
  /\ detected = {}
  /\ sigchld_ign = FALSE
  /\ sigpipe_ign = FALSE
  /\ fds = {0, 1, 2}
  /\ fds_touched = FALSE
  /\ setsid_done = FALSE
  /\ pidfile = "absent"
  /\ n_create = [p \in Procs |-> 0]
  /\ n_remove = [p \in Procs |-> 0]
  /\ handlers = {}
  /\ n_init = 0
  /\ n_shutdown = 0
  /\ read_started = FALSE
  /\ read_failed = FALSE
  /\ loop = 0
  /\ hstack = <<>>
  /\ eintr = FALSE
  /\ n_term = 0
  /\ n_burst = 0
  /\ n_usr1 = 0
  /\ flush_new = 0
  /\ flush_run = 0
  /\ n_spawn = 0
  /\ clock = 0
  /\ interval = 0
  /\ wait_until = 0
  /\ ts_wait = 0
  /\ sleep_until = 0
  /\ do_loop_ret = <<>>
  /\ anchor = 0
  /\ ontime = 0

Init ==
  /\ Start
  /\ limits = [interval |-> LifeMaxInterval, time |-> LifeMaxTime,
               term |-> LifeMaxTermSignals, usr1 |-> LifeMaxUsr1Signals]

(***************************************************************************)
(* Helpers.                                                                *)
(***************************************************************************)
Goto(self, label) == pc' = [pc EXCEPT ![self] = label]

\* return (code) from main, or exit (code).
Exit(self, code) ==
  /\ pc' = [pc EXCEPT ![self] = "exited"]
  /\ status' = [status EXCEPT ![self] = code]

\* The process that runs main past the fork.
Live == IF pc["child"] = "none" THEN "main" ELSE "child"

\* A main thread that takes no step while a flush thread exists.
RunsAfterFlush(self, label) ==
  pc[self] = label /\ hstack = <<>> /\ flush_new = 0 /\ flush_run = 0

\* The main thread runs only while no signal handler is running on it.
Runs(self, label) == pc[self] = label /\ hstack = <<>>

getenv(name) == environ[name]
unsetenv(name) == [environ EXCEPT ![name] = NULL]

\* The descriptor open and dup return: the lowest one that is free.
LowestFree == CHOOSE d \in 0..3 : d \notin fds /\ \A e \in 0..3 : e < d => e \in fds

(***************************************************************************)
(* main, lines 688-720: configuration, base directory, global variables.   *)
(***************************************************************************)
\* A main that returns 0 where it gives up.
FatalReturnsZero(self) == Exit(self, 0)

\* return (1): main gives up during start-up (lines 692, 702, 707, 717, 749,
\* 774, 781, 788, 806, 815, 824).
Fatal(self) == Exit(self, 1)

CfRead(self) ==
  /\ Runs(self, "cf_read")
  /\ \/ Fatal(self)
     \/ Goto(self, "change_basedir") /\ UNCHANGED status
  /\ UNCHANGED <<optVars, exit_status, notifyVars, daemonVars, sigVars, flushVars,
                 pluginVars, timeVars>>

ChangeBasedir(self) ==
  /\ Runs(self, "change_basedir")
  /\ \/ Fatal(self)
     \/ Goto(self, "init_global_variables") /\ UNCHANGED status
  /\ UNCHANGED <<optVars, exit_status, notifyVars, daemonVars, sigVars, flushVars,
                 pluginVars, timeVars>>

InitGlobalVariables(self) ==
  /\ Runs(self, "init_global_variables")
  /\ \/ Fatal(self)
     \/ test_config /\ Exit(self, 0)
     \/ ~test_config /\ Goto(self, "sigchld") /\ UNCHANGED status
  /\ UNCHANGED <<optVars, exit_status, notifyVars, daemonVars, sigVars, flushVars,
                 pluginVars, timeVars>>

(***************************************************************************)
(* main, lines 726-738: SIGCHLD is ignored, then the test that decides the *)
(* fork: daemonize && notify_upstart() == 0 && notify_systemd() == 0.      *)
(***************************************************************************)
\* A main that consults the notifiers whatever daemonize is.
AlwaysNotify(d) == "notify_upstart"

\* Line 734: the first operand of the test, daemonize.  The notifiers are
\* consulted only if it is set; otherwise the fork branch is skipped.
AfterSigChld(d) == IF d THEN "notify_upstart" ELSE "sigpipe"

SigChld(self) ==
  /\ Runs(self, "sigchld")
  /\ sigchld_ign' = TRUE
  /\ Goto(self, AfterSigChld(daemonize))
  /\ UNCHANGED <<status, optVars, exit_status, notifyVars, fds, fds_touched,
                 setsid_done, pidfile, n_create, n_remove, sigVars, flushVars,
                 pluginVars, timeVars>>

(***************************************************************************)
(* notify_upstart, lines 444-462.  raise(SIGSTOP) stops the process; it    *)
(* goes on with unsetenv when the supervisor sends SIGCONT.                *)
(***************************************************************************)
\* A comparison that takes every job name for collectd's.
AnyJob(upstart_job) == TRUE

\* Line 451: strcmp(upstart_job, "collectd") == 0.
IsCollectdJob(upstart_job) == upstart_job.val = STR_COLLECTD

\* A main that calls notify_systemd whatever notify_upstart returned.
AlwaysSystemd(r) == "notify_systemd"

\* Line 736: notify_upstart() == 0 && notify_systemd() == 0.  When
\* notify_upstart has returned r, notify_systemd is called only if r is 0;
\* otherwise the fork branch is skipped.
AfterUpstart(r) == IF r = 0 THEN "notify_systemd" ELSE "sigpipe"

\* Line 736: when notify_systemd has returned r, main forks only if r is 0.
AfterSystemd(r) == IF r = 0 THEN "fork" ELSE "sigpipe"

NotifyUpstart(self) ==
  /\ Runs(self, "notify_upstart")
  /\ LET upstart_job == getenv("UPSTART_JOB") IN
       \/ /\ upstart_job = NULL
          /\ ret_upstart' = 0
          /\ Goto(self, AfterUpstart(0))
          /\ UNCHANGED <<n_sigstop, detected>>
       \/ /\ upstart_job # NULL
          /\ ~IsCollectdJob(upstart_job)
          /\ ret_upstart' = 0
          /\ Goto(self, AfterUpstart(0))
          /\ UNCHANGED <<n_sigstop, detected>>
       \/ /\ upstart_job # NULL
          /\ IsCollectdJob(upstart_job)
          /\ detected' = detected \cup {"upstart"}
          /\ n_sigstop' = n_sigstop + 1
          /\ Goto(self, "upstart_stopped")
          /\ UNCHANGED ret_upstart
  /\ UNCHANGED <<status, optVars, exit_status, environ, ret_systemd,
                 notifysocket, sock_fd, sent, daemonVars, sigVars, flushVars,
                 pluginVars, timeVars>>

\* Lines 459-461, and main's test at line 736: a non-zero result skips the fork.
UpstartContinued(self) ==
  /\ Runs(self, "upstart_stopped")
  /\ environ' = unsetenv("UPSTART_JOB")
  /\ ret_upstart' = 1
  /\ Goto(self, AfterUpstart(1))
  /\ UNCHANGED <<status, optVars, exit_status, ret_systemd, notifysocket,
                 sock_fd, sent, n_sigstop, detected, daemonVars, sigVars, flushVars,
                 pluginVars, timeVars>>

(***************************************************************************)
(* notify_systemd, lines 464-531.                                          *)
(***************************************************************************)
\* A test that takes every non-empty value for a socket path.
NonEmptySocket(s) == Len(s) >= 1

\* Lines 476-477: the path is at least two characters and starts with @ or /.
ValidNotifySocket(s) == ~(Len(s) < 2 \/ (s[1] # "@" /\ s[1] # "/"))

\* Lines 498-517: the address sendto is given.  An abstract address starts
\* with a null byte and covers only the bytes of the name.
SockAddr(s) ==
  IF s[1] # "@"
    THEN [abstract |-> FALSE, sun_path |-> s, whole |-> TRUE]
    ELSE [abstract |-> TRUE, sun_path |-> <<"NUL">> \o Tail(s), whole |-> FALSE]

NotifySystemd(self) ==
  /\ Runs(self, "notify_systemd")
  /\ notifysocket' = getenv("NOTIFY_SOCKET")
  /\ \/ /\ notifysocket' = NULL
        /\ ret_systemd' = 0
        /\ Goto(self, AfterSystemd(0))
        /\ UNCHANGED <<environ, detected>>
     \/ /\ notifysocket' # NULL
        /\ ~ValidNotifySocket(notifysocket'.val)
        /\ ret_systemd' = 0
        /\ Goto(self, AfterSystemd(0))
        /\ UNCHANGED <<environ, detected>>
     \/ /\ notifysocket' # NULL
        /\ ValidNotifySocket(notifysocket'.val)
        /\ detected' = detected \cup {"systemd"}
        /\ environ' = unsetenv("NOTIFY_SOCKET")
        /\ Goto(self, "systemd_socket")
        /\ UNCHANGED ret_systemd
  /\ UNCHANGED <<status, optVars, exit_status, ret_upstart, sock_fd, sent,
                 n_sigstop, daemonVars, sigVars, flushVars, pluginVars, timeVars>>

\* Lines 486-496.
SystemdSocket(self) ==
  /\ Runs(self, "systemd_socket")
  /\ \/ /\ ret_systemd' = 0
        /\ Goto(self, AfterSystemd(0))
        /\ UNCHANGED <<sock_fd, fds>>
     \/ /\ sock_fd' = LowestFree
        /\ fds' = fds \cup {LowestFree}
        /\ Goto(self, "systemd_sendto")
        /\ UNCHANGED ret_systemd
  /\ UNCHANGED <<status, optVars, exit_status, environ, ret_upstart,
                 notifysocket, sent, n_sigstop, detected, sigchld_ign, fds_touched,
                 setsid_done, pidfile, n_create, n_remove, sigVars, flushVars,
                 pluginVars, timeVars>>

\* Lines 498-530, and main's test at line 736.
SystemdSendto(self) ==
  /\ Runs(self, "systemd_sendto")
  /\ \/ /\ ret_systemd' = 0
        /\ Goto(self, AfterSystemd(0))
        /\ UNCHANGED <<sent, environ>>
     \/ /\ sent' = Append(sent, [to |-> SockAddr(notifysocket.val),
                                 payload |-> READY_PAYLOAD])
        /\ environ' = unsetenv("NOTIFY_SOCKET")
        /\ ret_systemd' = 1
        /\ Goto(self, AfterSystemd(1))
  /\ fds' = fds \ {sock_fd}
  /\ sock_fd' = -1
  /\ UNCHANGED <<status, optVars, exit_status, ret_upstart, notifysocket,
                 n_sigstop, detected, sigchld_ign, fds_touched, setsid_done, pidfile,
                 n_create, n_remove, sigVars, flushVars, pluginVars, timeVars>>

(***************************************************************************)
(* main, lines 742-790: the daemonizing branch.                            *)
(***************************************************************************)
\* Lines 742-756: fork fails and main returns 1, or the parent returns 0
\* (its only step) and the child goes on to setsid.
Fork(self) ==
  /\ Runs(self, "fork")
  /\ \/ Fatal(self)
     \/ /\ pc' = [pc EXCEPT ![self] = "exited", !["child"] = "setsid"]
        /\ status' = [status EXCEPT ![self] = 0]
  /\ UNCHANGED <<optVars, exit_status, notifyVars, daemonVars, sigVars, flushVars,
                 pluginVars, timeVars>>

\* Line 759.
Setsid(self) ==
  /\ Runs(self, "setsid")
  /\ setsid_done' = TRUE
  /\ Goto(self, "pidfile_create")
  /\ UNCHANGED <<status, optVars, exit_status, notifyVars, sigchld_ign, fds,
                 fds_touched, pidfile, n_create, n_remove, sigVars, flushVars,
                 pluginVars, timeVars>>

\* A main that goes on when pidfile_create has failed.
CreateFailureIgnored(self) == Goto(self, "close_fds") /\ UNCHANGED status

\* Lines 762-763: if (pidfile_create ()) exit (2).
CreateFailed(self) == Exit(self, 2)

\* pidfile_create, lines 414-431: fopen fails, or the pid is written.
PidfileCreate(self) ==
  /\ Runs(self, "pidfile_create")
  /\ \/ /\ CreateFailed(self)
        /\ UNCHANGED <<pidfile, n_create>>
     \/ /\ pidfile' = self
        /\ n_create' = [n_create EXCEPT ![self] = @ + 1]
        /\ Goto(self, "close_fds")
        /\ UNCHANGED status
  /\ UNCHANGED <<optVars, exit_status, notifyVars, sigchld_ign, fds, fds_touched,
                 setsid_done, n_remove, sigVars, flushVars, pluginVars, timeVars>>

\* Lines 766-768.
CloseFds(self) ==
  /\ Runs(self, "close_fds")
  /\ fds' = fds \ {0, 1, 2}
  /\ fds_touched' = TRUE
  /\ Goto(self, "open_devnull")
  /\ UNCHANGED <<status, optVars, exit_status, notifyVars, sigchld_ign, setsid_done,
                 pidfile, n_create, n_remove, sigVars, flushVars, pluginVars,
                 timeVars>>

\* Lines 770-789: open ("/dev/null"), dup (0), dup (0).  Each call fails (-1)
\* or returns the lowest free descriptor; main returns 1 unless that is the
\* descriptor `expected`.
Redirect(self, label, expected, next) ==
  /\ Runs(self, label)
  /\ \/ /\ Fatal(self)
        /\ UNCHANGED fds
     \/ /\ fds' = fds \cup {LowestFree}
        /\ IF LowestFree # expected
             THEN Fatal(self)
             ELSE Goto(self, next) /\ UNCHANGED status
  /\ UNCHANGED <<optVars, exit_status, notifyVars, sigchld_ign, fds_touched,
                 setsid_done, pidfile, n_create, n_remove, sigVars, flushVars,
                 pluginVars, timeVars>>

OpenDevnull(self) == Redirect(self, "open_devnull", 0, "dup_stdout")
DupStdout(self) == Redirect(self, "dup_stdout", 1, "dup_stderr")
DupStderr(self) == Redirect(self, "dup_stderr", 2, "sigpipe")

(***************************************************************************)
(* main, lines 793-825: SIGPIPE is ignored and the three handlers are      *)
(* installed; a sigaction that fails makes main return 1.                  *)
(***************************************************************************)
SigPipe(self) ==
  /\ Runs(self, "sigpipe")
  /\ sigpipe_ign' = TRUE
  /\ Goto(self, "sigaction_int")
  /\ UNCHANGED <<status, optVars, exit_status, notifyVars, daemonVars, handlers,
                 loop, hstack, eintr, n_term, n_burst, n_usr1, flushVars, pluginVars,
                 timeVars>>

Sigaction(self, label, sig, next) ==
  /\ Runs(self, label)
  /\ \/ /\ Fatal(self)
        /\ UNCHANGED handlers
     \/ /\ handlers' = handlers \cup {sig}
        /\ Goto(self, next)
        /\ UNCHANGED status
  /\ UNCHANGED <<optVars, exit_status, notifyVars, daemonVars, sigpipe_ign, loop,
                 hstack, eintr, n_term, n_burst, n_usr1, flushVars, pluginVars, timeVars>>

SigactionInt(self) == Sigaction(self, "sigaction_int", "INT", "sigaction_term")
SigactionTerm(self) == Sigaction(self, "sigaction_term", "TERM", "sigaction_usr1")
SigactionUsr1(self) == Sigaction(self, "sigaction_usr1", "USR1", "do_init")

(***************************************************************************)
(* main, lines 830-843 and 907-921: plugin init, the single read of -T,    *)
(* plugin shutdown, PID file removal, return.                              *)
(***************************************************************************)
\* do_init, lines 318-354, and lines 830-836.
DoInit(self) ==
  /\ Runs(self, "do_init")
  /\ n_init' = n_init + 1
  /\ \/ exit_status' = 1
     \/ UNCHANGED exit_status
  /\ IF test_readall THEN Goto(self, "read_all_once") ELSE Goto(self, "loop_init")
  /\ UNCHANGED <<status, optVars, notifyVars, daemonVars, sigVars, flushVars,
                 n_shutdown, read_started, read_failed, timeVars>>

\* Lines 838-842.
ReadAllOnce(self) ==
  /\ Runs(self, "read_all_once")
  /\ read_started' = TRUE
  /\ \/ exit_status' = 1 /\ read_failed' = TRUE
     \/ UNCHANGED <<exit_status, read_failed>>
  /\ Goto(self, "do_shutdown")
  /\ UNCHANGED <<status, optVars, notifyVars, daemonVars, sigVars, flushVars,
                 n_init, n_shutdown, timeVars>>

\* do_shutdown, lines 408-411, and lines 910-917.
DoShutdown(self) ==
  /\ Runs(self, "do_shutdown")
  /\ n_shutdown' = n_shutdown + 1
  /\ \/ exit_status' = 1
     \/ UNCHANGED exit_status
  /\ IF daemonize THEN Goto(self, "pidfile_remove") ELSE Goto(self, "return")
  /\ UNCHANGED <<status, optVars, notifyVars, daemonVars, sigVars, flushVars,
                 n_init, read_started, read_failed, timeVars>>

\* pidfile_remove, lines 433-440 (the PIDFile option always has a value),
\* called at line 918; the result of unlink is not looked at.
PidfileRemove(self) ==
  /\ Runs(self, "pidfile_remove")
  /\ n_remove' = [n_remove EXCEPT ![self] = @ + 1]
  /\ pidfile' = "absent"
  /\ Goto(self, "return")
  /\ UNCHANGED <<status, optVars, exit_status, notifyVars, sigchld_ign, fds,
                 fds_touched, setsid_done, n_create, sigVars, flushVars, pluginVars,
                 timeVars>>

\* A main that always returns 0.
AlwaysSuccess(es) == 0

\* Line 921: return (exit_status).
FinalStatus(es) == es

Return(self) ==
  /\ Runs(self, "return")
  /\ Exit(self, FinalStatus(exit_status))
  /\ UNCHANGED <<optVars, exit_status, notifyVars, daemonVars, sigVars, flushVars,
                 pluginVars, timeVars>>

(***************************************************************************)
(* do_loop, lines 358-404.                                                 *)
(***************************************************************************)
\* A loop test that never looks at loop.
AlwaysLoop(l) == TRUE

\* A scheduler that keeps the old schedule after an overrun, so that the
\* missed ticks are caught up.
CatchUpDeadline(w, now, i) == w + i

\* A scheduler that anchors every deadline to the current time.
DriftingDeadline(w, now, i) == now + i

\* Line 365 and the first operand of line 390: loop == 0.
LoopCond(l) == l = 0

\* Line 383: the deadline after a tick that overran.
OverrunDeadline(w, now, i) == now + i

\* A scheduler that moves the deadline by two intervals after a tick on time.
DoubleStep(w, now, i) == w + i + i

\* Line 388: the deadline after a tick that was on time.
NextDeadline(w, now, i) == w + i

\* Lines 360-363.
LoopInit(self) ==
  /\ Runs(self, "loop_init")
  /\ \E i \in 1..limits.interval :
       /\ interval' = i
       /\ wait_until' = clock + i
       /\ anchor' = clock + i
  /\ ontime' = 0
  /\ Goto(self, "loop_test")
  /\ UNCHANGED <<status, optVars, exit_status, notifyVars, daemonVars, sigVars,
                 flushVars, pluginVars, clock, ts_wait, sleep_until, do_loop_ret>>

\* Line 365: while (loop == 0).  do_loop returns 0 when the test fails, and
\* main (line 849) drops the result.  The model stops at the horizon: no
\* iteration is started after limits.time.
LoopTest(self) ==
  /\ Runs(self, "loop_test")
  /\ IF LoopCond(loop)
       THEN clock <= limits.time /\ Goto(self, "read_call") /\ UNCHANGED do_loop_ret
       ELSE do_loop_ret' = <<0>> /\ Goto(self, "do_shutdown")
  /\ UNCHANGED <<status, optVars, exit_status, notifyVars, daemonVars, sigVars,
                 flushVars, pluginVars, clock, interval, wait_until, ts_wait,
                 sleep_until, anchor, ontime>>

\* Lines 367-375: ts_wait = { 0, 0 }, then plugin_read_all is called.
ReadCall(self) ==
  /\ Runs(self, "read_call")
  /\ read_started' = TRUE
  /\ ts_wait' = 0
  /\ Goto(self, "read_all")
  /\ UNCHANGED <<status, optVars, exit_status, notifyVars, daemonVars, sigVars,
                 flushVars, n_init, n_shutdown, read_failed, clock, interval,
                 wait_until, sleep_until, do_loop_ret, anchor, ontime>>

\* Lines 375-388: plugin_read_all returns (its result is dropped), now is
\* read, and the deadline is moved.
ReadAllReturns(self) ==
  /\ Runs(self, "read_all")
  /\ \/ read_failed' = TRUE
     \/ UNCHANGED read_failed
  /\ LET now == clock IN
       IF now >= wait_until
         THEN /\ wait_until' = OverrunDeadline(wait_until, now, interval)
              /\ anchor' = wait_until'
              /\ ontime' = 0
              /\ Goto(self, "loop_test")
              /\ UNCHANGED ts_wait
         ELSE /\ ts_wait' = wait_until - now
              /\ wait_until' = NextDeadline(wait_until, now, interval)
              /\ ontime' = ontime + 1
              /\ Goto(self, "sleep_test")
              /\ UNCHANGED anchor
  /\ UNCHANGED <<status, optVars, exit_status, notifyVars, daemonVars, sigVars,
                 flushVars, n_init, n_shutdown, read_started, clock, interval,
                 sleep_until, do_loop_ret>>

\* Line 390: while ((loop == 0) && (nanosleep (&ts_wait, &ts_wait) != 0)),
\* the first operand.
SleepTest(self) ==
  /\ Runs(self, "sleep_test")
  /\ IF LoopCond(loop) THEN Goto(self, "nanosleep_call") ELSE Goto(self, "loop_test")
  /\ eintr' = FALSE
  /\ UNCHANGED <<status, optVars, exit_status, notifyVars, daemonVars, sigpipe_ign,
                 handlers, loop, hstack, n_term, n_burst, n_usr1, flushVars, pluginVars,
                 timeVars>>

\* Line 390, the second operand: nanosleep is called.  The call fails at once
\* with an errno other than EINTR (do_loop returns -1, lines 392-399) or
\* starts a sleep of ts_wait.
NanosleepCall(self) ==
  /\ Runs(self, "nanosleep_call")
  /\ \/ /\ do_loop_ret' = <<-1>>
        /\ Goto(self, "do_shutdown")
        /\ UNCHANGED sleep_until
     \/ /\ sleep_until' = clock + ts_wait
        /\ Goto(self, "nanosleep")
        /\ UNCHANGED do_loop_ret
  /\ UNCHANGED <<status, optVars, exit_status, notifyVars, daemonVars, sigVars,
                 flushVars, pluginVars, clock, interval, wait_until, ts_wait,
                 anchor, ontime>>

\* A nanosleep that reports no time left when it is interrupted.
NoRemaining(until, now) == 0

\* Line 390: the time left of an interrupted sleep, which nanosleep stores
\* through its second argument, &ts_wait.
Remaining(until, now) == until - now

\* nanosleep returns 0 once the time has passed, or -1 with EINTR and the
\* remaining time in ts_wait after a handler has run; eintr then stays set
\* until line 390 is evaluated again.
NanosleepReturns(self) ==
  /\ Runs(self, "nanosleep")
  /\ \/ /\ clock >= sleep_until
        /\ eintr' = FALSE
        /\ Goto(self, "loop_test")
        /\ UNCHANGED ts_wait
     \/ /\ clock < sleep_until
        /\ eintr
        /\ ts_wait' = Remaining(sleep_until, clock)
        /\ Goto(self, "sleep_test")
        /\ UNCHANGED eintr
  /\ sleep_until' = 0
  /\ UNCHANGED <<status, optVars, exit_status, notifyVars, daemonVars, sigpipe_ign,
                 handlers, loop, hstack, n_term, n_burst, n_usr1, flushVars, pluginVars,
                 clock, interval, wait_until, do_loop_ret, anchor, ontime>>

InDoLoop ==
  pc[Live] \in {"loop_test", "read_call", "read_all", "sleep_test", "nanosleep_call",
                "nanosleep"}

\* The last instant of the model: an iteration started at limits.time ends
\* its sleep at limits.time + interval at the latest.
Horizon == limits.time + interval

\* cdtime: time passes while do_loop runs.  A read-all ends by limits.time,
\* and a sleep not yet started is one that ends by Horizon.
Tick ==
  /\ InDoLoop
  /\ CASE pc[Live] \in {"loop_test", "read_call", "read_all"} -> clock < limits.time
       [] pc[Live] \in {"sleep_test", "nanosleep_call"} -> clock + ts_wait < Horizon
       [] pc[Live] = "nanosleep" -> clock < Horizon
  /\ clock' = clock + 1
  /\ UNCHANGED <<procVars, optVars, exit_status, notifyVars, daemonVars, sigVars,
                 flushVars, pluginVars, interval, wait_until, ts_wait, sleep_until,
                 do_loop_ret, anchor, ontime>>

(***************************************************************************)
(* Signals.  A signal with a handler is delivered to the main thread of    *)
(* the running process; it is blocked while its own handler runs, and a    *)
(* handler may be interrupted by the handler of another signal.            *)
(***************************************************************************)
Alive == pc[Live] \notin {"exited", "aborted", "upstart_stopped"}

Blocked(sig) == \E k \in 1..Len(hstack) : hstack[k].sig = sig

Top == hstack[Len(hstack)]

Pop == SubSeq(hstack, 1, Len(hstack) - 1)

\* A signal is delivered and its handler starts.  The handlers of SIGINT and
\* SIGTERM (lines 93-101) do loop++, which reads loop ...
DeliverTerm ==
  /\ Alive
  /\ n_term < limits.term
  /\ \E sig \in {"INT", "TERM"} :
       /\ sig \in handlers
       /\ ~Blocked(sig)
       /\ hstack' = Append(hstack, [sig |-> sig, reg |-> loop])
  /\ eintr' = (eintr \/ pc[Live] = "nanosleep")
  /\ n_term' = n_term + 1
  /\ UNCHANGED <<procVars, optVars, exit_status, notifyVars, daemonVars, sigpipe_ign,
                 handlers, loop, n_burst, n_usr1, flushVars, pluginVars, timeVars>>

\* A handler that leaves loop as it was.
NoIncrement(x) == x

\* x + n on a C int (32 bits, line 77) for 0 <= n <= INT_MAX, as the two's
\* complement add computes it.
Add32(x, n) ==
  IF x <= INT_MAX - n THEN x + n ELSE ((x - INT_MAX) - 1) + ((n - INT_MAX) - 1)

\* loop++, lines 95 and 100.
Increment(x) == Add32(x, 1)

\* Signed overflow is undefined: built as a plain add the sum wraps, built
\* with overflow trapping the process is aborted.
Outcomes(x, n) == IF x <= INT_MAX - n THEN {"exact"} ELSE {"wrap", "trap"}

\* ... and writes it back incremented; the handler returns.
HandlerStore ==
  /\ Alive
  /\ hstack # <<>>
  /\ \E outcome \in Outcomes(Top.reg, 1) :
       IF outcome = "trap"
         THEN pc' = [pc EXCEPT ![Live] = "aborted"] /\ hstack' = <<>> /\ UNCHANGED loop
         ELSE loop' = Increment(Top.reg) /\ hstack' = Pop /\ UNCHANGED pc
  /\ UNCHANGED <<status, optVars, exit_status, notifyVars, daemonVars, sigpipe_ign,
                 handlers, eintr, n_term, n_burst, n_usr1, flushVars, pluginVars,
                 timeVars>>

\* The number of signals in a burst.
BurstLength == INT_MAX

\* BurstLength deliveries of SIGINT / SIGTERM in a row, each handler returning
\* before the next delivery and before the main thread takes a step.
TermBurst ==
  /\ Alive
  /\ n_burst < MaxBursts
  /\ hstack = <<>>
  /\ \E sig \in {"INT", "TERM"} : sig \in handlers
  /\ \E outcome \in Outcomes(loop, BurstLength) :
       IF outcome = "trap"
         THEN pc' = [pc EXCEPT ![Live] = "aborted"] /\ UNCHANGED loop
         ELSE loop' = Add32(loop, BurstLength) /\ UNCHANGED pc
  /\ eintr' = (eintr \/ pc[Live] = "nanosleep")
  /\ n_burst' = n_burst + 1
  /\ UNCHANGED <<status, optVars, exit_status, notifyVars, daemonVars, sigpipe_ign,
                 handlers, hstack, n_term, n_usr1, flushVars, pluginVars, timeVars>>

\* SIGUSR1 is delivered: sig_usr1_handler, lines 104-115.  pthread_create
\* starts a detached thread running do_flush, or fails; its result is not
\* looked at.
DeliverUsr1 ==
  /\ Alive
  /\ n_usr1 < limits.usr1
  /\ "USR1" \in handlers
  /\ eintr' = (eintr \/ pc[Live] = "nanosleep")
  /\ n_usr1' = n_usr1 + 1
  /\ \/ flush_new' = flush_new + 1 /\ n_spawn' = n_spawn + 1
     \/ UNCHANGED <<flush_new, n_spawn>>
  /\ UNCHANGED <<procVars, optVars, exit_status, notifyVars, daemonVars, sigpipe_ign,
                 handlers, loop, hstack, n_term, n_burst, flush_run, pluginVars,
                 timeVars>>

\* do_flush, lines 81-90: the thread calls plugin_flush (NULL, 0, NULL) ...
FlushStart ==
  /\ Alive
  /\ flush_new > 0
  /\ flush_new' = flush_new - 1
  /\ flush_run' = flush_run + 1
  /\ UNCHANGED <<procVars, optVars, exit_status, notifyVars, daemonVars, sigVars,
                 n_spawn, pluginVars, timeVars>>

\* ... and exits when it returns.
FlushDone ==
  /\ Alive
  /\ flush_run > 0
  /\ flush_run' = flush_run - 1
  /\ UNCHANGED <<procVars, optVars, exit_status, notifyVars, daemonVars, sigVars,
                 flush_new, n_spawn, pluginVars, timeVars>>

\* The number of plugin_flush calls made so far.
n_flush == n_spawn - flush_new

(***************************************************************************)
(* The specification.                                                      *)
(***************************************************************************)
Main(self) ==
  \/ CfRead(self) \/ ChangeBasedir(self) \/ InitGlobalVariables(self)
  \/ SigChld(self) \/ NotifyUpstart(self) \/ UpstartContinued(self)
  \/ NotifySystemd(self) \/ SystemdSocket(self) \/ SystemdSendto(self)
  \/ Fork(self) \/ Setsid(self) \/ PidfileCreate(self)
  \/ CloseFds(self) \/ OpenDevnull(self) \/ DupStdout(self) \/ DupStderr(self)
  \/ SigPipe(self) \/ SigactionInt(self) \/ SigactionTerm(self)
  \/ SigactionUsr1(self) \/ DoInit(self) \/ ReadAllOnce(self) \/ LoopInit(self)
  \/ LoopTest(self) \/ ReadCall(self) \/ ReadAllReturns(self) \/ SleepTest(self)
  \/ NanosleepCall(self) \/ NanosleepReturns(self) \/ DoShutdown(self)
  \/ PidfileRemove(self) \/ Return(self)

Next ==
  \/ \E self \in Procs : Main(self)
  \/ DeliverTerm \/ HandlerStore \/ DeliverUsr1
  \/ FlushStart \/ FlushDone
  \/ Tick

Spec == Init /\ [][Next]_vars

(***************************************************************************)
(* The scheduler in a foreground run (-f, no supervisor in the             *)
(* environment), with wider bounds on the clock and the signals.           *)
(***************************************************************************)
Foreground ==
  /\ Start
  /\ ~test_readall
  /\ ~daemonize
  /\ \A name \in EnvNames : environ[name] = NULL

LoopStart ==
  /\ Foreground
  /\ limits = [interval |-> MaxInterval, time |-> MaxTime,
               term |-> MaxTermSignals, usr1 |-> MaxUsr1Signals]

MainThread(self) ==
  \/ CfRead(self) \/ ChangeBasedir(self) \/ InitGlobalVariables(self)
  \/ SigChld(self) \/ SigPipe(self) \/ SigactionInt(self) \/ SigactionTerm(self)
  \/ SigactionUsr1(self) \/ DoInit(self) \/ LoopInit(self) \/ LoopTest(self)
  \/ ReadCall(self) \/ ReadAllReturns(self) \/ SleepTest(self)
  \/ NanosleepCall(self) \/ NanosleepReturns(self) \/ DoShutdown(self)
  \/ Return(self)

LoopNext ==
  \/ \E self \in Procs : MainThread(self)
  \/ DeliverTerm \/ HandlerStore \/ DeliverUsr1
  \/ FlushStart \/ FlushDone
  \/ Tick

LoopSpec == LoopStart /\ [][LoopNext]_vars

(***************************************************************************)
(* The same runs under the scheduling the platform guarantees: the main    *)
(* thread and a running handler keep taking steps (every call returns),    *)
(* and time passes.  Nothing makes a signal arrive.                        *)
(***************************************************************************)
\* Runs in the foreground with bursts of terminate signals.
BurstStart ==
  /\ Foreground
  /\ limits = [interval |-> LifeMaxInterval, time |-> LifeMaxTime,
               term |-> MaxTermSignals, usr1 |-> 0]

BurstNext ==
  \/ \E self \in Procs : MainThread(self)
  \/ DeliverTerm
  \/ HandlerStore
  \/ TermBurst
  \/ Tick

BurstSpec == BurstStart /\ [][BurstNext]_vars

LiveStart ==
  /\ Foreground
  /\ limits = [interval |-> LifeMaxInterval, time |-> MaxTime,
               term |-> LifeMaxTermSignals, usr1 |-> LifeMaxUsr1Signals]

LiveSpec ==
  /\ LiveStart
  /\ [][LoopNext]_vars
  /\ WF_vars(\E self \in Procs : MainThread(self))
  /\ WF_vars(HandlerStore)
  /\ WF_vars(Tick)

(***************************************************************************)
(* Properties of the scheduler, do_loop.                                   *)
(***************************************************************************)
\* C1: while do_loop runs and no tick has overrun, the deadline is the
\* anchor (the loop's start time + interval, or the deadline the last overrun
\* set) plus interval for each tick since: deadlines never drift, however long
\* plugin_read_all took and whenever the sleep ended.
NoDrift == InDoLoop => wait_until = anchor + ontime * interval

\* Two ticks on time in a row, time having passed the anchor.
NoDriftWitness == InDoLoop /\ ontime >= 2 /\ clock > anchor

\* C2: when plugin_read_all returns at or after the deadline, do_loop does not
\* sleep: the deadline becomes now + interval and the loop test comes next,
\* which starts the next plugin_read_all if loop is still 0.
OverrunSkipsSleep ==
  [][ /\ (pc[Live] = "read_all" /\ pc'[Live] # "read_all" /\ clock >= wait_until)
         => /\ pc'[Live] = "loop_test"
            /\ wait_until' = clock + interval
            /\ wait_until' > clock
            /\ sleep_until' = 0
            /\ ts_wait' = 0
      /\ (pc[Live] = "loop_test" /\ pc'[Live] # "loop_test" /\ loop = 0)
         => pc'[Live] = "read_call" ]_vars

\* After an overrun the next plugin_read_all has started at the instant the
\* overrunning one returned.
OverrunWitness ==
  pc[Live] = "read_all" /\ ontime = 0 /\ clock > 0 /\ anchor = clock + interval

\* C3 (as claimed): once loop is non-zero it stays non-zero.
StopMonotonic == [][loop # 0 => loop' # 0]_vars

\* C4 (as claimed): no plugin_read_all starts once loop is non-zero.
NoReadAfterStop == [][(pc[Live] # "read_all" /\ pc'[Live] = "read_all") => loop = 0]_vars

\* C4: a terminate signal leaves the main thread where it is, and a
\* plugin_read_all in flight ends only by returning to line 377; an iteration
\* starts only from a loop test that found loop zero, and a loop test that
\* finds loop non-zero leaves do_loop.
StopEndsLoop ==
  [][ /\ n_term' # n_term => pc' = pc
      /\ (pc[Live] = "read_all" /\ pc'[Live] # "read_all")
         => pc'[Live] \in {"loop_test", "sleep_test"}
      /\ (pc[Live] # "read_all" /\ pc'[Live] = "read_all") => pc[Live] = "read_call"
      /\ (pc[Live] # "read_call" /\ pc'[Live] = "read_call")
         => (pc[Live] = "loop_test" /\ loop = 0)
      /\ (pc[Live] = "loop_test" /\ pc'[Live] # "loop_test" /\ loop # 0)
         => pc'[Live] = "do_shutdown" ]_vars

\* The signal has landed between the loop test and the call of plugin_read_all.
LateReadWitness == pc[Live] = "read_call" /\ loop # 0

\* C5: a terminate signal delivered while do_loop runs leads to do_shutdown.
StopLive == (InDoLoop /\ n_term > 0) ~> (n_shutdown > 0)

\* The signal landed between the test of loop and the call of nanosleep: the
\* sleep runs with loop non-zero and is not interrupted.
StopLiveWitness ==
  pc[Live] = "nanosleep" /\ loop # 0 /\ ~eintr /\ clock < sleep_until

\* C6 (as claimed): every SIGUSR1 handled so far has started one flush thread.
FlushPerSignal == n_spawn = n_usr1

(***************************************************************************)
(* Properties of start-up and of the pidfile.                              *)
(***************************************************************************)
\* C7 (as claimed): a process that has called pidfile_remove has created the
\* pidfile before.
RemoveOnlyByCreator == \A p \in Procs : n_remove[p] > 0 => n_create[p] > 0

\* C8: the pidfile is never created by the original process; the child
\* creates it at most once, after setsid and after the parent has exited with
\* 0, and before it touches a descriptor, installs a handler, initializes the
\* plugins or reads; a child past pidfile_create without a pidfile has exited
\* with status 2.
PidfileInChild ==
  /\ n_create["main"] = 0
  /\ n_create["child"] <= 1
  /\ pc["child"] # "none" => (pc["main"] = "exited" /\ status["main"] = 0)
  /\ n_create["child"] = 1 => setsid_done
  /\ (pc["child"] # "none" /\ n_create["child"] = 0)
     => /\ ~fds_touched
        /\ ~sigpipe_ign
        /\ handlers = {}
        /\ n_init = 0
        /\ ~read_started
  /\ (pc["child"] \notin {"none", "setsid", "pidfile_create"} /\ n_create["child"] = 0)
     => (pc["child"] = "exited" /\ status["child"] = 2)

\* The child has created the pidfile and gone on to read.
PidfileInChildWitness == n_create["child"] = 1 /\ read_started

\* C9: at most one handshake is performed (SIGSTOP raised or READY=1 sent),
\* and a marker that was detected is unset: UPSTART_JOB once the process has
\* been continued, NOTIFY_SOCKET at once.
HandshakeOnce ==
  /\ n_sigstop + Len(sent) <= 1
  /\ Cardinality(detected) <= 1
  /\ ("upstart" \in detected /\ pc[Live] # "upstart_stopped")
     => environ["UPSTART_JOB"] = NULL
  /\ "systemd" \in detected => environ["NOTIFY_SOCKET"] = NULL

\* Both markers were present and valid; the Upstart handshake was performed.
HandshakeOnceWitness ==
  /\ n_sigstop = 1
  /\ pc[Live] = "sigpipe"
  /\ environ["NOTIFY_SOCKET"] # NULL
  /\ ValidNotifySocket(environ["NOTIFY_SOCKET"].val)

\* C10: notify_upstart raises SIGSTOP exactly when UPSTART_JOB is set to
\* "collectd"; otherwise it returns 0 and changes nothing, whether the variable
\* is unset or names another job.  Once continued it unsets UPSTART_JOB and
\* returns non-zero, and main skips notify_systemd and the fork.
UpstartRoutine ==
  [][ /\ (pc[Live] = "notify_upstart" /\ pc'[Live] # "notify_upstart")
         => IF environ["UPSTART_JOB"] = Str(STR_COLLECTD)
              THEN /\ n_sigstop' = n_sigstop + 1
                   /\ pc'[Live] = "upstart_stopped"
                   /\ environ' = environ
              ELSE /\ n_sigstop' = n_sigstop
                   /\ ret_upstart' = 0
                   /\ environ' = environ
                   /\ pc'[Live] = "notify_systemd"
      /\ (pc[Live] = "upstart_stopped" /\ pc'[Live] # "upstart_stopped")
         => /\ environ'["UPSTART_JOB"] = NULL
            /\ environ'["NOTIFY_SOCKET"] = environ["NOTIFY_SOCKET"]
            /\ ret_upstart' # 0
            /\ pc' = [pc EXCEPT !["main"] = "sigpipe"]
      /\ ret_upstart # 0 => (pc'["child"] = "none" /\ sent' = <<>>) ]_vars

\* The process was stopped, continued, and runs on without a fork.
UpstartRoutineWitness ==
  ret_upstart = 1 /\ environ["UPSTART_JOB"] = NULL /\ read_started /\ pc["child"] = "none"

\* C11: notify_systemd returns 0 without a socket or a datagram when
\* NOTIFY_SOCKET is unset, shorter than two characters or does not start with
\* / or @.  Otherwise it returns 1 only after exactly one datagram READY=1\n
\* went out, with NOTIFY_SOCKET unset; when socket or sendto fails it returns 0
\* with nothing sent and main goes on to fork.  The socket is open only
\* between socket and sendto, and is closed on every way out.
SystemdRoutine ==
  [][ /\ (pc[Live] = "notify_systemd" /\ pc'[Live] # "notify_systemd")
         => LET s == environ["NOTIFY_SOCKET"] IN
            IF s = NULL \/ Len(s.val) < 2 \/ s.val[1] \notin {"/", "@"}
              THEN /\ ret_systemd' = 0
                   /\ pc'[Live] = "fork"
                   /\ sock_fd' = -1
                   /\ fds' = fds
                   /\ sent' = <<>>
                   /\ environ' = environ
              ELSE pc'[Live] = "systemd_socket" /\ sent' = <<>>
      /\ (pc[Live] = "systemd_socket" /\ pc'[Live] # "systemd_socket")
         => \/ pc'[Live] = "systemd_sendto" /\ sock_fd' \in fds' /\ sent' = <<>>
            \/ /\ ret_systemd' = 0
               /\ pc'[Live] = "fork"
               /\ sock_fd' = -1
               /\ fds' = fds
               /\ sent' = <<>>
      /\ (pc[Live] = "systemd_sendto" /\ pc'[Live] # "systemd_sendto")
         => /\ sock_fd' = -1
            /\ fds' = fds \ {sock_fd}
            /\ \/ /\ ret_systemd' = 0
                  /\ pc'[Live] = "fork"
                  /\ sent' = <<>>
               \/ /\ ret_systemd' = 1
                  /\ pc'[Live] = "sigpipe"
                  /\ Len(sent') = 1
                  /\ sent'[1].payload = READY_PAYLOAD
                  /\ environ'["NOTIFY_SOCKET"] = NULL
      /\ sock_fd' # -1 => pc'[Live] = "systemd_sendto"
      /\ Len(sent') <= 1 ]_vars

\* The datagram went to an abstract socket and the routine returned 1.
SystemdRoutineWitness ==
  /\ ret_systemd = 1
  /\ Len(sent) = 1
  /\ sent[1].to.abstract
  /\ sock_fd = -1
  /\ fds = {0, 1, 2}

\* C12 (as claimed): a process that does not daemonize (-f, -T, or a handshake
\* that was handled) has not changed the disposition of SIGCHLD, forked,
\* called setsid, created a PID file or closed descriptors 0, 1, 2.
SkipBypassesAll ==
  (~daemonize \/ ret_upstart = 1 \/ ret_systemd = 1)
    => /\ ~sigchld_ign
       /\ pc["child"] = "none"
       /\ ~setsid_done
       /\ \A p \in Procs : n_create[p] = 0
       /\ ~fds_touched

\* C13 (as claimed): when a handshake is performed the three handlers are
\* installed and do_init has returned.
HandshakeAfterInit ==
  (n_sigstop > 0 \/ Len(sent) > 0) => (handlers = {"INT", "TERM", "USR1"} /\ n_init > 0)

(***************************************************************************)
(* Properties of error handling.                                           *)
(***************************************************************************)
\* C14 (as claimed): a process in which a plugin_read_all has failed, and whose
\* do_loop has not failed, ends with a non-zero exit status.
ReadFailureFlagged ==
  (pc[Live] = "exited" /\ read_failed /\ do_loop_ret # <<-1>>) => status[Live] # 0

\* The calls of main whose failure the start-up does not survive.
FatalPoints ==
  {"change_basedir", "fork", "pidfile_create", "open_devnull", "dup_stdout",
   "dup_stderr", "sigaction_int", "sigaction_term", "sigaction_usr1"}

ResumeKeepsDeadline ==
  (n_term = 0 /\ ontime > 0 /\ pc[Live] \in {"loop_test", "read_call", "read_all"})
    => clock >= wait_until - interval

\* nanosleep was interrupted by the second SIGUSR1 and returned the time left.
ResumeWitness ==
  pc[Live] = "sleep_test" /\ eintr /\ n_term = 0 /\ n_usr1 = 2 /\ ts_wait > 0

\* C17 (as claimed): a sleep that was interrupted is always resumed.
InterruptedSleepResumes ==
  [][(pc[Live] = "sleep_test" /\ eintr /\ pc'[Live] # "sleep_test")
       => pc'[Live] = "nanosleep_call"]_vars

\* C17: line 390 tests loop before every call of nanosleep, also after an
\* interrupted one: nanosleep is called only if loop is zero, it returns early
\* only when a handler has run, and with loop non-zero the rest of the sleep
\* is skipped and the loop test that follows leaves do_loop.
StopCutsSleep ==
  [][ /\ (pc[Live] = "sleep_test" /\ pc'[Live] # "sleep_test")
         => pc'[Live] = (IF loop = 0 THEN "nanosleep_call" ELSE "loop_test")
      /\ (pc[Live] = "nanosleep" /\ pc'[Live] # "nanosleep")
         => \/ clock >= sleep_until /\ pc'[Live] = "loop_test"
            \/ eintr /\ pc'[Live] = "sleep_test" /\ ts_wait' = sleep_until - clock
      /\ (pc[Live] = "loop_test" /\ pc'[Live] # "loop_test" /\ loop # 0)
         => pc'[Live] = "do_shutdown" ]_vars

\* A terminate signal has interrupted nanosleep with time left to sleep.
StopCutsSleepWitness ==
  pc[Live] = "sleep_test" /\ eintr /\ loop # 0 /\ ts_wait > 0

\* C18 (as claimed): a process whose do_loop returned -1 ends with a non-zero
\* exit status.
SleepFailureReported ==
  (pc[Live] = "exited" /\ do_loop_ret = <<-1>>) => status[Live] # 0

\* C19: do_init and do_shutdown are called at most once; no read starts before
\* do_init or after do_shutdown; whatever do_init returned, the loop (or the
\* single read of -T) comes next; pidfile_remove comes after do_shutdown; a
\* process that has called do_init ends only after do_shutdown, and with the
\* exit status that, once set to 1, stays 1.
InitShutdownOnce ==
  [][ /\ n_init' <= 1
      /\ n_shutdown' <= 1
      /\ read_started' => n_init' = 1
      /\ (read_started' /\ ~read_started) => n_shutdown = 0
      /\ n_shutdown' = 1
         => (n_init' = 1 /\ pc'[Live] \in {"pidfile_remove", "return", "exited"})
      /\ \A p \in Procs : n_remove'[p] > 0 => n_shutdown' = 1
      /\ (pc[Live] = "do_init" /\ pc'[Live] # "do_init")
         => (n_init' = 1 /\ pc'[Live] \in {"loop_init", "read_all_once"})
      /\ exit_status = 1 => exit_status' = 1
      /\ (pc'[Live] = "exited" /\ n_init' = 1)
         => (n_shutdown' = 1 /\ status'[Live] = exit_status') ]_vars

\* do_init has failed and the scheduler is reading.
InitShutdownOnceWitness ==
  pc[Live] = "read_all" /\ exit_status = 1 /\ n_init = 1 /\ n_shutdown = 0

\* C20: every sleep do_loop asks for, first or resumed, lasts more than 0 and
\* at most interval, and when plugin_read_all is running, so that now is
\* about to be compared with wait_until, wait_until <= now + interval.
SleepBounded ==
  /\ pc[Live] \in {"sleep_test", "nanosleep_call"} => (0 < ts_wait /\ ts_wait <= interval)
  /\ pc[Live] = "nanosleep" => sleep_until - clock <= interval
  /\ pc[Live] \in {"read_call", "read_all"} => wait_until <= clock + interval

\* After an overrun and a SIGUSR1, a sleep of a whole interval is asked for.
SleepBoundedWitness ==
  /\ pc[Live] = "nanosleep_call"
  /\ ts_wait = interval
  /\ anchor > interval
  /\ n_usr1 > 0

(***************************************************************************)
(* Properties of the flush threads and of the readiness notifiers.         *)
(***************************************************************************)
\* C21: main never waits for a flush thread.  Whenever the main thread stands
\* before do_shutdown, pidfile_remove or the return of main, it can take that
\* step whatever number of flush threads has been created or is inside
\* plugin_flush, and the step leaves those threads as they are.
ShutdownNeverWaits ==
  (hstack = <<>> /\ pc[Live] \in {"do_shutdown", "pidfile_remove", "return"})
    => ENABLED (Main(Live) /\ flush_new' = flush_new /\ flush_run' = flush_run)

\* main has called do_shutdown and returned while a thread created by
\* sig_usr1_handler was inside plugin_flush.
ShutdownDuringFlushWitness ==
  pc[Live] = "exited" /\ n_shutdown = 1 /\ n_usr1 > 0 /\ flush_run > 0

\* The places of notify_upstart and notify_systemd.
NotifierPoints ==
  {"notify_upstart", "upstart_stopped", "notify_systemd", "systemd_socket",
   "systemd_sendto"}

\* C22: in a foreground run (-f or -T) neither notifier is entered: no SIGSTOP
\* is raised, no supervisor is detected, no socket is opened, no datagram is
\* sent and no step changes UPSTART_JOB or NOTIFY_SOCKET, whatever they hold.
\* Once notify_upstart has detected Upstart, notify_systemd is never entered:
\* it returns nothing, detects nothing, sends nothing, and no step changes
\* NOTIFY_SOCKET.
NotifiersOnlyWhenDaemonizing ==
  [][ /\ ~daemonize
         => /\ \A p \in Procs : pc'[p] \notin NotifierPoints
            /\ n_sigstop' = 0
            /\ detected' = {}
            /\ ret_upstart' = NoStatus
            /\ ret_systemd' = NoStatus
            /\ sock_fd' = -1
            /\ sent' = <<>>
            /\ environ' = environ
      /\ "upstart" \in detected'
         => /\ \A p \in Procs :
                 pc'[p] \notin {"notify_systemd", "systemd_socket", "systemd_sendto"}
            /\ ret_systemd' = NoStatus
            /\ "systemd" \notin detected'
            /\ sock_fd' = -1
            /\ sent' = <<>>
            /\ environ'["NOTIFY_SOCKET"] = environ["NOTIFY_SOCKET"] ]_vars

\* A run with -T under both supervisors' markers has read, and the markers
\* are still there.
ForegroundWitness ==
  /\ test_readall
  /\ ~daemonize
  /\ read_started
  /\ environ["UPSTART_JOB"] = Str(STR_COLLECTD)
  /\ environ["NOTIFY_SOCKET"] = Str(<<"@", "n">>)

=============================================================================
